---- MODULE Spec2Model ----
(***************************************************************************)
(* TorSettingsTab (desktop/src/onionshare/tor_settings_tab.py): the Tor    *)
(* settings form, its "test" and "save" buttons, the construction of a     *)
(* Settings object from the form fields, the decision whether the live Tor *)
(* session must be rebooted, and the success / fail callbacks of the       *)
(* connection widget.                                                      *)
(*                                                                         *)
(* Representation.  A Settings object is a record over the keys the tab    *)
(* reads and writes.  A multi-line text is the sequence of its lines, that *)
(* is the value of text.split("\n"): "" is <<"">>, and "a\nb\n" is         *)
(* <<"a", "b", "">>.  An integer stored in the settings is written with    *)
(* a leading "#" ("#9051" is the integer 9051) so that it differs from the *)
(* text "9051", as 9051 != "9051" in Python.                               *)
(***************************************************************************)
EXTENDS Integers, Sequences, FiniteSets, TLC

VARIABLES
    persisted,          \* the settings store on disk (Settings.load / Settings.save)
    old_settings,       \* self.old_settings
    fields,             \* the widgets' values
    error_label,        \* self.error_label text
    tor_con_type,       \* self.tor_con_type: "None", "test" or "save"
    buttons_visible,    \* test_tor_button and save_button shown
    tor_con,            \* the TorConnectionWidget: shown/running, and what start() was given
    onion_authenticated,\* self.common.gui.onion.is_authenticated()
    test_onion,         \* self.test_onion: "none", "live" or "cleaned"
    local_only,         \* self.common.gui.local_only
    bundled_radio_enabled, \* connection_type_bundled_radio.isEnabled()
    tab_open,           \* the tab exists (close_this_tab not yet emitted)
    log,                \* history: what the last click and its callback did, in order
    hist,               \* history: the situation at the last click; both are dropped
                        \* when the user goes on to edit the idle form
    edits               \* history: number of user edits so far

vars == <<persisted, old_settings, fields, error_label, tor_con_type, buttons_visible,
          tor_con, onion_authenticated, test_onion, local_only, bundled_radio_enabled,
          tab_open, log, hist, edits>>

----------------------------------------------------------------------------
(* Bounds and sample values *)

MaxEdits == 2
MaxLines == 3

ConnectionTypes == {"bundled", "automatic", "control_port", "socket_file"}
BuiltinKinds == {"obfs4", "meek-azure", "snowflake"}
AddressTexts == {"127.0.0.1", "localhost"}
PortTexts == {"9051", "9052"}
PathTexts == {"/var/run/tor/control", "/tmp/tor.sock"}
PasswordTexts == {"", "hunter2"}

\* Sample bridge lines.
Obfs4Line == "obfs4 192.0.2.1:443 ABCDEF0123456789ABCDEF0123456789ABCDEF01"
Ipv6Line == "[2001:db8::1]:443 ABCDEF0123456789ABCDEF0123456789ABCDEF01"
MeekLine == "meek_lite 192.0.2.2:2 97700DFE9F483596DDA6264C4D7DF7641E1E39CE url=https://meek.example/ front=ajax.example"
SnowflakeLine == "snowflake 192.0.2.3:1 2B280B23E1107BB62ABFC40DDCC8824814F80A72"
GarbageLine == "notabridge"
BlankLine == " "

EmptyText == <<"">>
MoatTexts == {EmptyText, <<BlankLine>>, <<Obfs4Line, "">>}
CustomTexts == {EmptyText, <<GarbageLine, "">>, <<Obfs4Line, GarbageLine, "">>,
                <<SnowflakeLine, "">>}
\* The lines a typed custom bridges text is made of, and the texts of up to
\* MaxLines lines.
BridgeLines == {Obfs4Line, Ipv6Line, MeekLine, SnowflakeLine, GarbageLine, BlankLine, ""}
TypedTexts == UNION {[1..n -> BridgeLines] : n \in 1..MaxLines}
FailMessages == {"", "settings_error_unknown"}

----------------------------------------------------------------------------
(* Helpers of the Python and Qt library *)

\* text.strip() == ""
IsBlank(text) == \A i \in 1..Len(text) : text[i] \in {"", BlankLine}

\* str(value): the text of a stored value; an integer loses its "#" mark.
Str(v) ==
    CASE v = "#9051" -> "9051"
      [] v = "#9052" -> "9052"
      [] OTHER -> v

----------------------------------------------------------------------------
(* The Settings object and the settings store (onionshare_cli.settings) *)

SettingsKeys ==
    {"connection_type", "control_port_address", "control_port_port", "socket_file_path",
     "socks_address", "socks_port", "auth_type", "auth_password", "no_bridges",
     "tor_bridges_use_obfs4", "tor_bridges_use_meek_lite_azure",
     "tor_bridges_use_snowflake", "tor_bridges_use_moat", "tor_bridges_use_moat_bridges",
     "tor_bridges_use_custom_bridges"}

\* settings.set(key, val)
SettingsSet(s, key, val) == [s EXCEPT ![key] = val]

\* settings.get(key)
SettingsGet(s, key) == s[key]

\* Settings(common) followed by load(): the object holds what the store holds.
SettingsLoad(store) == store

\* settings.save(): the store holds what the object holds.
SettingsSave(s) == s

----------------------------------------------------------------------------
(* settings_from_fields: the custom bridge line patterns.  Each pattern is given *)
(* by the sample lines it matches; on the sample lines this is what re.match  *)
(* answers for the source's regular expression.                               *)

\* ipv4_pattern.match(bridge)
ipv4_pattern(bridge) == bridge \in {Obfs4Line}

\* ipv6_pattern.match(bridge)
ipv6_pattern(bridge) == bridge \in {Ipv6Line}

\* meek_lite_pattern.match(bridge)
meek_lite_pattern(bridge) == bridge \in {MeekLine}

\* snowflake_pattern.match(bridge)
snowflake_pattern(bridge) == bridge \in {SnowflakeLine}

\* The test of one line in the loop over bridges.
BridgeAccepted(bridge) ==
    /\ bridge # ""
    /\ \/ ipv4_pattern(bridge)
       \/ ipv6_pattern(bridge)
       \/ meek_lite_pattern(bridge)
       \/ snowflake_pattern(bridge)

\* The loop over bridges, had it stopped at the first line no pattern matches.
RECURSIVE NewBridges_StopsAtRejected(_)
NewBridges_StopsAtRejected(bridges) ==
    IF bridges = <<>> THEN <<>>
    ELSE IF Head(bridges) = "" THEN NewBridges_StopsAtRejected(Tail(bridges))
    ELSE IF BridgeAccepted(Head(bridges))
         THEN <<Head(bridges)>> \o NewBridges_StopsAtRejected(Tail(bridges))
         ELSE <<>>

\* new_bridges after the loop over bridges: the accepted lines, in order.
RECURSIVE NewBridges(_)
NewBridges(bridges) ==
    IF bridges = <<>> THEN <<>>
    ELSE IF BridgeAccepted(Head(bridges))
         THEN <<Head(bridges)>> \o NewBridges(Tail(bridges))
         ELSE NewBridges(Tail(bridges))

\* "\n".join(new_bridges) + "\n", as the sequence of its lines.
JoinBridges(new_bridges) == Append(new_bridges, "")

----------------------------------------------------------------------------
(* settings_from_fields *)

\* Connection type, addresses, ports, path and authentication.
ConnectionFromFields(settings, f) ==
    LET s1 == SettingsSet(settings, "connection_type", f.connection_type)
        s2 == SettingsSet(s1, "control_port_address", f.control_port_address)
        s3 == SettingsSet(s2, "control_port_port", f.control_port_port)
        s4 == SettingsSet(s3, "socket_file_path", f.socket_file_path)
        s5 == SettingsSet(s4, "socks_address", f.socks_address)
        s6 == SettingsSet(s5, "socks_port", f.socks_port)
        s7 == SettingsSet(s6, "auth_type", IF f.no_auth THEN "no_auth" ELSE "password")
    IN  SettingsSet(s7, "auth_password", f.auth_password)

\* The three builtin flags, set together.
SetBuiltinFlags(settings, obfs4, meek, snowflake) ==
    LET s1 == SettingsSet(settings, "tor_bridges_use_obfs4", obfs4)
        s2 == SettingsSet(s1, "tor_bridges_use_meek_lite_azure", meek)
    IN  SettingsSet(s2, "tor_bridges_use_snowflake", snowflake)

\* The builtin branch, had it not reset the moat flag and the custom bridges.
BuiltinFromFields_KeepsOthers(settings, f) ==
    IF f.bridge_radio = "builtin"
    THEN LET selection == f.bridge_builtin_dropdown
         IN  CASE selection = "obfs4" -> SetBuiltinFlags(settings, TRUE, FALSE, FALSE)
               [] selection = "meek-azure" -> SetBuiltinFlags(settings, FALSE, TRUE, FALSE)
               [] selection = "snowflake" -> SetBuiltinFlags(settings, FALSE, FALSE, TRUE)
               [] OTHER -> settings
    ELSE settings

\* if self.bridge_builtin_radio.isChecked(): ...
BuiltinFromFields(settings, f) ==
    IF f.bridge_radio = "builtin"
    THEN LET selection == f.bridge_builtin_dropdown
             s1 == CASE selection = "obfs4" -> SetBuiltinFlags(settings, TRUE, FALSE, FALSE)
                     [] selection = "meek-azure" ->
                            SetBuiltinFlags(settings, FALSE, TRUE, FALSE)
                     [] selection = "snowflake" ->
                            SetBuiltinFlags(settings, FALSE, FALSE, TRUE)
                     [] OTHER -> settings
             s2 == SettingsSet(s1, "tor_bridges_use_moat", FALSE)
         IN  SettingsSet(s2, "tor_bridges_use_custom_bridges", EmptyText)
    ELSE settings

\* The moat branch, had it not checked for a blank textbox.
MoatFromFields_NoBlankCheck(settings, f) ==
    IF f.bridge_radio = "moat"
    THEN LET s1 == SetBuiltinFlags(settings, FALSE, FALSE, FALSE)
             s2 == SettingsSet(s1, "tor_bridges_use_moat", TRUE)
         IN  [ok |-> TRUE,
              settings |-> SettingsSet(
                  SettingsSet(s2, "tor_bridges_use_moat_bridges", f.bridge_moat_textbox),
                  "tor_bridges_use_custom_bridges", EmptyText),
              error |-> ""]
    ELSE [ok |-> TRUE, settings |-> settings, error |-> ""]

\* The moat branch, had it put the custom bridges message on the error label.
MoatFromFields_CustomMessage(settings, f) ==
    IF f.bridge_radio = "moat"
    THEN LET s1 == SetBuiltinFlags(settings, FALSE, FALSE, FALSE)
             s2 == SettingsSet(s1, "tor_bridges_use_moat", TRUE)
             moat_bridges == f.bridge_moat_textbox
         IN  IF IsBlank(moat_bridges)
             THEN [ok |-> FALSE, settings |-> s2,
                   error |-> "gui_settings_tor_bridges_invalid"]
             ELSE [ok |-> TRUE,
                   settings |-> SettingsSet(
                       SettingsSet(s2, "tor_bridges_use_moat_bridges", moat_bridges),
                       "tor_bridges_use_custom_bridges", EmptyText),
                   error |-> ""]
    ELSE [ok |-> TRUE, settings |-> settings, error |-> ""]

\* if self.bridge_moat_radio.isChecked(): ... ; may return False
MoatFromFields(settings, f) ==
    IF f.bridge_radio = "moat"
    THEN LET s1 == SetBuiltinFlags(settings, FALSE, FALSE, FALSE)
             s2 == SettingsSet(s1, "tor_bridges_use_moat", TRUE)
             moat_bridges == f.bridge_moat_textbox
         IN  IF IsBlank(moat_bridges)
             THEN [ok |-> FALSE, settings |-> s2,
                   error |-> "gui_settings_moat_bridges_invalid"]
             ELSE [ok |-> TRUE,
                   settings |-> SettingsSet(
                       SettingsSet(s2, "tor_bridges_use_moat_bridges", moat_bridges),
                       "tor_bridges_use_custom_bridges", EmptyText),
                   error |-> ""]
    ELSE [ok |-> TRUE, settings |-> settings, error |-> ""]

\* The custom branch, had it stored the joined lines without looking at bridges_valid.
CustomFromFields_NoValidCheck(settings, f) ==
    IF f.bridge_radio = "custom"
    THEN LET s1 == SetBuiltinFlags(settings, FALSE, FALSE, FALSE)
             s2 == SettingsSet(s1, "tor_bridges_use_moat", FALSE)
         IN  [ok |-> TRUE,
              settings |-> SettingsSet(s2, "tor_bridges_use_custom_bridges",
                                       JoinBridges(NewBridges(f.bridge_custom_textbox))),
              error |-> ""]
    ELSE [ok |-> TRUE, settings |-> settings, error |-> ""]

\* if self.bridge_custom_radio.isChecked(): ... ; may return False
CustomFromFields(settings, f) ==
    IF f.bridge_radio = "custom"
    THEN LET s1 == SetBuiltinFlags(settings, FALSE, FALSE, FALSE)
             s2 == SettingsSet(s1, "tor_bridges_use_moat", FALSE)
             bridges == f.bridge_custom_textbox
             new_bridges == NewBridges(bridges)
             bridges_valid == new_bridges # <<>>
         IN  IF bridges_valid
             THEN [ok |-> TRUE,
                   settings |-> SettingsSet(s2, "tor_bridges_use_custom_bridges",
                                            JoinBridges(new_bridges)),
                   error |-> ""]
             ELSE [ok |-> FALSE, settings |-> s2,
                   error |-> "gui_settings_tor_bridges_invalid"]
    ELSE [ok |-> TRUE, settings |-> settings, error |-> ""]

\* "Whether we use bridges": the checkbox and the three radios, in the code's order.
BridgesFromFields(settings, f) ==
    IF f.bridge_use_checkbox
    THEN LET s1 == SettingsSet(settings, "no_bridges", FALSE)
             s2 == BuiltinFromFields(s1, f)
             m == MoatFromFields(s2, f)
         IN  IF ~m.ok THEN m ELSE CustomFromFields(m.settings, f)
    ELSE [ok |-> TRUE, settings |-> SettingsSet(settings, "no_bridges", TRUE),
          error |-> ""]

\* settings_from_fields(): ok is FALSE where the code returns False; error is the
\* text it then puts on the error label.
SettingsFromFields(f, store) ==
    LET settings == SettingsLoad(store)
    IN  BridgesFromFields(ConnectionFromFields(settings, f), f)

----------------------------------------------------------------------------
(* __init__ and reload_settings: the widgets after the tab is constructed *)

\* The bundled radio is enabled except in dev mode on Windows and macOS.
BundledRadioEnabled == bundled_radio_enabled

\* The widgets as constructed, before reload_settings fills them in.
FreshFields ==
    [connection_type |-> "none",
     control_port_address |-> "", control_port_port |-> "", socket_file_path |-> "",
     socks_address |-> "", socks_port |-> "",
     no_auth |-> FALSE, auth_password |-> "",
     bridge_use_checkbox |-> FALSE, bridge_radio |-> "none",
     bridge_builtin_dropdown |-> "obfs4",
     bridge_moat_textbox |-> EmptyText, bridge_custom_textbox |-> EmptyText]

\* radio.setChecked(checked) on one of the three bridge radios. They are siblings,
\* hence auto-exclusive: checking one unchecks the others, and Qt ignores
\* setChecked(False) on the checked button of an exclusive group.
SetBridgeRadioChecked(f, radio, checked) ==
    IF checked THEN [f EXCEPT !.bridge_radio = radio] ELSE f

\* bridge_use_checkbox_state_changed(state), run when the checkbox changes state.
BridgeUseCheckboxStateChanged(f, checked) ==
    IF checked
    THEN [SetBridgeRadioChecked(f, "builtin", TRUE) EXCEPT
              !.bridge_builtin_dropdown = "obfs4"]
    ELSE f

\* bridge_use_checkbox.setCheckState(...): the handler runs only on a change.
SetBridgeUseCheckbox(f, checked) ==
    IF f.bridge_use_checkbox = checked THEN f
    ELSE BridgeUseCheckboxStateChanged([f EXCEPT !.bridge_use_checkbox = checked], checked)

\* reload_settings, the connection and authentication part.
ReloadConnection(f, old) ==
    LET connection_type == SettingsGet(old, "connection_type")
        radio == IF connection_type = "bundled" /\ ~BundledRadioEnabled
                 THEN "automatic"
                 ELSE IF connection_type \in ConnectionTypes THEN connection_type
                      ELSE f.connection_type
    IN  [f EXCEPT
            !.connection_type = radio,
            !.control_port_address = SettingsGet(old, "control_port_address"),
            !.control_port_port = Str(SettingsGet(old, "control_port_port")),
            !.socket_file_path = SettingsGet(old, "socket_file_path"),
            !.socks_address = SettingsGet(old, "socks_address"),
            !.socks_port = Str(SettingsGet(old, "socks_port")),
            !.no_auth = (SettingsGet(old, "auth_type") = "no_auth"),
            !.auth_password = SettingsGet(old, "auth_password")]

\* The bridges part, had it set the radios and the dropdown before the checkbox:
\* the handler of the checkbox then clicks the builtin radio and selects obfs4.
ReloadBridges_CheckboxLast(f, old) ==
    IF SettingsGet(old, "no_bridges")
    THEN SetBridgeUseCheckbox(f, FALSE)
    ELSE LET builtin_obfs4 == SettingsGet(old, "tor_bridges_use_obfs4")
             builtin_meek_azure == SettingsGet(old, "tor_bridges_use_meek_lite_azure")
             builtin_snowflake == SettingsGet(old, "tor_bridges_use_snowflake")
             f1 == IF builtin_obfs4 \/ builtin_meek_azure \/ builtin_snowflake
                   THEN [SetBridgeRadioChecked(f, "builtin", TRUE) EXCEPT
                            !.bridge_builtin_dropdown =
                                IF builtin_obfs4 THEN "obfs4"
                                ELSE IF builtin_meek_azure THEN "meek-azure"
                                ELSE "snowflake"]
                   ELSE f
         IN  SetBridgeUseCheckbox(f1, TRUE)

\* reload_settings, the bridges part.
ReloadBridges(f, old) ==
    IF SettingsGet(old, "no_bridges")
    THEN SetBridgeUseCheckbox(f, FALSE)
    ELSE LET f1 == SetBridgeUseCheckbox(f, TRUE)
             builtin_obfs4 == SettingsGet(old, "tor_bridges_use_obfs4")
             builtin_meek_azure == SettingsGet(old, "tor_bridges_use_meek_lite_azure")
             builtin_snowflake == SettingsGet(old, "tor_bridges_use_snowflake")
         IN  IF builtin_obfs4 \/ builtin_meek_azure \/ builtin_snowflake
             THEN [SetBridgeRadioChecked(f1, "builtin", TRUE) EXCEPT
                      !.bridge_builtin_dropdown =
                          IF builtin_obfs4 THEN "obfs4"
                          ELSE IF builtin_meek_azure THEN "meek-azure"
                          ELSE "snowflake"]
             ELSE LET f2 == SetBridgeRadioChecked(f1, "builtin", FALSE)
                      use_moat == SettingsGet(old, "tor_bridges_use_moat")
                      f3 == SetBridgeRadioChecked(f2, "moat", use_moat)
                      moat_bridges == SettingsGet(old, "tor_bridges_use_moat_bridges")
                      f4 == [f3 EXCEPT !.bridge_moat_textbox = moat_bridges]
                      custom_bridges == SettingsGet(old, "tor_bridges_use_custom_bridges")
                  IN  IF ~IsBlank(custom_bridges)
                      THEN [SetBridgeRadioChecked(f4, "custom", TRUE) EXCEPT
                               !.bridge_custom_textbox = custom_bridges]
                      ELSE f4

\* reload_settings, had it left the new Settings object as constructed, not loaded.
ReloadOldSettings_NotLoaded(store) ==
    [connection_type |-> "bundled", control_port_address |-> "127.0.0.1",
     control_port_port |-> "#9051", socket_file_path |-> "/var/run/tor/control",
     socks_address |-> "127.0.0.1", socks_port |-> "#9051", auth_type |-> "no_auth",
     auth_password |-> "", no_bridges |-> TRUE, tor_bridges_use_obfs4 |-> FALSE,
     tor_bridges_use_meek_lite_azure |-> FALSE, tor_bridges_use_snowflake |-> FALSE,
     tor_bridges_use_moat |-> FALSE, tor_bridges_use_moat_bridges |-> EmptyText,
     tor_bridges_use_custom_bridges |-> EmptyText]

\* reload_settings, its first two statements: self.old_settings = Settings(common);
\* self.old_settings.load().  No other statement of the tab assigns old_settings.
ReloadOldSettings(store) == SettingsLoad(store)

\* reload_settings(): the fields filled from the loaded old_settings.
ReloadSettings(old) == ReloadBridges(ReloadConnection(FreshFields, old), old)

----------------------------------------------------------------------------
(* save_clicked: is a reboot of the Onion needed? *)

\* The compared keys, had auth_password been left out.
CompareKeys_NoPassword ==
    <<"connection_type", "control_port_address", "control_port_port", "socks_address",
      "socks_port", "socket_file_path", "auth_type", "no_bridges",
      "tor_bridges_use_obfs4", "tor_bridges_use_meek_lite_azure",
      "tor_bridges_use_custom_bridges">>

\* The keys save_clicked hands to changed().
CompareKeys ==
    <<"connection_type", "control_port_address", "control_port_port", "socks_address",
      "socks_port", "socket_file_path", "auth_type", "auth_password", "no_bridges",
      "tor_bridges_use_obfs4", "tor_bridges_use_meek_lite_azure",
      "tor_bridges_use_custom_bridges">>

\* changed(s1, s2, keys)
Changed(s1, s2, keys) ==
    \E i \in 1..Len(keys) : SettingsGet(s1, keys[i]) # SettingsGet(s2, keys[i])

\* reboot_onion, had it depended on the changed keys alone.
RebootOnion_OnlyWhenChanged(authenticated, settings, old) ==
    Changed(settings, old, CompareKeys)

\* reboot_onion, had it been set whatever the comparison says.
RebootOnion_Always(authenticated, settings, old) == TRUE

\* reboot_onion, as computed when the app is not local-only.
RebootOnion(authenticated, settings, old) ==
    IF authenticated
    THEN Changed(settings, old, CompareKeys)
    ELSE TRUE

----------------------------------------------------------------------------
(* The handlers, as the statements they execute, in order *)

\* test_tor_clicked, had it left the two buttons shown.
TestTorClickedSteps_ButtonsShown(r) ==
    <<"clear_error">> \o
    (IF ~r.ok
     THEN <<"set_error">>
     ELSE <<"new_test_onion", "type_test", "show_tor_con", "start_test">>)

\* test_tor_clicked, given the result r of settings_from_fields.
TestTorClickedSteps(r) ==
    <<"clear_error">> \o
    (IF ~r.ok
     THEN <<"set_error">>
     ELSE <<"hide_buttons", "new_test_onion", "type_test", "show_tor_con", "start_test">>)

\* save_clicked, had it saved only once no reboot is needed.
SaveClickedSteps_SaveAfterOutcome(r, is_local_only, authenticated, old) ==
    <<"clear_error">> \o
    (IF ~r.ok
     THEN <<"set_error">>
     ELSE IF ~is_local_only
          THEN IF RebootOnion(authenticated, r.settings, old)
               THEN <<"cleanup", "hide_buttons", "type_save", "show_tor_con",
                      "start_save">>
               ELSE <<"save", "close">>
          ELSE <<"save", "close">>)

\* save_clicked, had it started the attempt without cleaning up the Onion.
SaveClickedSteps_NoCleanup(r, is_local_only, authenticated, old) ==
    <<"clear_error">> \o
    (IF ~r.ok
     THEN <<"set_error">>
     ELSE <<"save">> \o
          (IF ~is_local_only
           THEN IF RebootOnion(authenticated, r.settings, old)
                THEN <<"hide_buttons", "type_save", "show_tor_con", "start_save">>
                ELSE <<"close">>
           ELSE <<"close">>))

\* save_clicked, given the result r of settings_from_fields.
SaveClickedSteps(r, is_local_only, authenticated, old) ==
    <<"clear_error">> \o
    (IF ~r.ok
     THEN <<"set_error">>
     ELSE <<"save">> \o
          (IF ~is_local_only
           THEN IF RebootOnion(authenticated, r.settings, old)
                THEN <<"cleanup", "hide_buttons", "type_save", "show_tor_con",
                       "start_save">>
                ELSE <<"close">>
           ELSE <<"close">>))

\* tor_con_success, had it left the test Onion alone.
TorConSuccessSteps_NoTestCleanup(type, authenticated, was_canceled) ==
    <<"hide_tor_con", "show_buttons">> \o
    (IF type = "test" THEN <<"alert">>
     ELSE IF type = "save"
          THEN IF authenticated /\ ~was_canceled THEN <<"close">> ELSE <<>>
          ELSE <<>>) \o
    <<"type_none">>

\* tor_con_success, had a save closed the tab whatever the session and the widget say.
TorConSuccessSteps_ClosesUnchecked(type, authenticated, was_canceled) ==
    <<"hide_tor_con", "show_buttons">> \o
    (IF type = "test" THEN <<"alert", "test_cleanup">>
     ELSE IF type = "save" THEN <<"close">> ELSE <<>>) \o
    <<"type_none">>

\* tor_con_success
TorConSuccessSteps(type, authenticated, was_canceled) ==
    <<"hide_tor_con", "show_buttons">> \o
    (IF type = "test" THEN <<"alert", "test_cleanup">>
     ELSE IF type = "save"
          THEN IF authenticated /\ ~was_canceled THEN <<"close">> ELSE <<>>
          ELSE <<>>) \o
    <<"type_none">>

\* tor_con_fail, had it left the test Onion alone.
TorConFailSteps_NoTestCleanup(type) ==
    <<"hide_tor_con", "show_buttons", "set_error", "type_none">>

\* tor_con_fail, had it left tor_con_type as it was.
TorConFailSteps_KeepsType(type) ==
    <<"hide_tor_con", "show_buttons", "set_error">> \o
    (IF type = "test" THEN <<"test_cleanup">> ELSE <<>>)

\* tor_con_fail
TorConFailSteps(type) ==
    <<"hide_tor_con", "show_buttons", "set_error">> \o
    (IF type = "test" THEN <<"test_cleanup">> ELSE <<>>) \o
    <<"type_none">>

\* self.common.gui.onion.cleanup(): the session is torn down, and is_authenticated()
\* answers False until a new connection succeeds.
OnionCleanup(authenticated) == FALSE

\* self.tor_con.start(settings, testing_settings, onion): the widget starts a
\* connection attempt with these settings; it ends by emitting success or fail.
TorConStart(tc, settings, testing_settings) ==
    [tc EXCEPT !.running = TRUE, !.settings = <<settings>>,
               !.testing_settings = testing_settings]

\* One statement, on the program state P; c carries the settings object and the
\* message at hand.
Exec(P, step, c) ==
    CASE step = "clear_error"    -> [P EXCEPT !.error_label = ""]
      [] step = "set_error"      -> [P EXCEPT !.error_label = c.msg]
      [] step = "save"           -> [P EXCEPT !.persisted = SettingsSave(c.settings)]
      [] step = "cleanup"        ->
             [P EXCEPT !.onion_authenticated = OnionCleanup(P.onion_authenticated)]
      [] step = "hide_buttons"   -> [P EXCEPT !.buttons_visible = FALSE]
      [] step = "show_buttons"   -> [P EXCEPT !.buttons_visible = TRUE]
      [] step = "new_test_onion" -> [P EXCEPT !.test_onion = "live"]
      [] step = "test_cleanup"   -> [P EXCEPT !.test_onion = "cleaned"]
      [] step = "type_test"      -> [P EXCEPT !.tor_con_type = "test"]
      [] step = "type_save"      -> [P EXCEPT !.tor_con_type = "save"]
      [] step = "type_none"      -> [P EXCEPT !.tor_con_type = "None"]
      [] step = "show_tor_con"   -> [P EXCEPT !.tor_con.shown = TRUE]
      [] step = "hide_tor_con"   -> [P EXCEPT !.tor_con.shown = FALSE]
      [] step = "start_test"     ->
             [P EXCEPT !.tor_con = TorConStart(P.tor_con, c.settings, TRUE)]
      [] step = "start_save"     ->
             [P EXCEPT !.tor_con = TorConStart(P.tor_con, c.settings, FALSE)]
      [] step = "close"          -> [P EXCEPT !.tab_open = FALSE]
      [] OTHER                   -> P

RECURSIVE Run(_, _, _)
Run(P, steps, c) ==
    IF steps = <<>> THEN P ELSE Run(Exec(P, Head(steps), c), Tail(steps), c)

\* The program state the statements act on.
Program ==
    [persisted |-> persisted, error_label |-> error_label, tor_con_type |-> tor_con_type,
     buttons_visible |-> buttons_visible, tor_con |-> tor_con,
     onion_authenticated |-> onion_authenticated, test_onion |-> test_onion,
     tab_open |-> tab_open]

Becomes(P) ==
    /\ persisted' = P.persisted
    /\ error_label' = P.error_label
    /\ tor_con_type' = P.tor_con_type
    /\ buttons_visible' = P.buttons_visible
    /\ tor_con' = P.tor_con
    /\ onion_authenticated' = P.onion_authenticated
    /\ test_onion' = P.test_onion
    /\ tab_open' = P.tab_open

----------------------------------------------------------------------------
(* Initial states: the tab constructed over a stored configuration *)

StoredPorts == {"#9051", "9051"}

BridgeChoices ==
    {[no_bridges |-> TRUE, obfs4 |-> FALSE, snowflake |-> FALSE, moat |-> FALSE,
      moat_bridges |-> EmptyText, custom |-> EmptyText],
     [no_bridges |-> FALSE, obfs4 |-> TRUE, snowflake |-> FALSE, moat |-> FALSE,
      moat_bridges |-> EmptyText, custom |-> EmptyText],
     [no_bridges |-> FALSE, obfs4 |-> FALSE, snowflake |-> TRUE, moat |-> FALSE,
      moat_bridges |-> EmptyText, custom |-> EmptyText],
     [no_bridges |-> FALSE, obfs4 |-> FALSE, snowflake |-> FALSE, moat |-> TRUE,
      moat_bridges |-> <<Obfs4Line, "">>, custom |-> EmptyText],
     [no_bridges |-> FALSE, obfs4 |-> FALSE, snowflake |-> FALSE, moat |-> FALSE,
      moat_bridges |-> EmptyText, custom |-> <<SnowflakeLine, "">>]}

\* A stored configuration.
StoredConfig(ct, port, b) ==
    [connection_type |-> ct,
     control_port_address |-> "127.0.0.1",
     control_port_port |-> port,
     socket_file_path |-> "/var/run/tor/control",
     socks_address |-> "127.0.0.1",
     socks_port |-> port,
     auth_type |-> IF ct = "bundled" THEN "no_auth" ELSE "password",
     auth_password |-> IF ct = "bundled" THEN "" ELSE "hunter2",
     no_bridges |-> b.no_bridges,
     tor_bridges_use_obfs4 |-> b.obfs4,
     tor_bridges_use_meek_lite_azure |-> FALSE,
     tor_bridges_use_snowflake |-> b.snowflake,
     tor_bridges_use_moat |-> b.moat,
     tor_bridges_use_moat_bridges |-> b.moat_bridges,
     tor_bridges_use_custom_bridges |-> b.custom]

\* Stored configurations the tab may be opened over: bundled Tor with any of the
\* bridge choices, the ports still integers or already saved as text by this tab;
\* and a control port with a password, no bridges.
InitConfigs ==
    {StoredConfig("bundled", port, b) : port \in StoredPorts, b \in BridgeChoices}
    \cup {StoredConfig("control_port", "9051", b) :
            b \in {c \in BridgeChoices : c.no_bridges}}

NoBuild == [ok |-> FALSE, settings |-> <<>>, error |-> ""]
NoHist == [kind |-> "none", persisted |-> <<>>, authenticated |-> FALSE,
           fields |-> <<>>, result |-> NoBuild]
FreshTorCon == [shown |-> FALSE, running |-> FALSE, settings |-> <<>>,
                testing_settings |-> FALSE]

\* What one run of settings_from_fields is remembered by.
Built(r) == [ok |-> r.ok, settings |-> <<r.settings>>, error |-> r.error]

\* __init__: the widgets are constructed and reload_settings fills them in.  In
\* local-only mode the app never connects to Tor: the Onion is not authenticated.
\* The platform is one where bundled Tor works (the bundled radio is enabled).
Init ==
    /\ bundled_radio_enabled = TRUE
    /\ persisted \in InitConfigs
    /\ old_settings = ReloadOldSettings(persisted)
    /\ fields = ReloadSettings(old_settings)
    /\ error_label = ""
    /\ tor_con_type = "None"
    /\ buttons_visible = TRUE
    /\ tor_con = FreshTorCon
    /\ local_only \in BOOLEAN
    /\ onion_authenticated \in (IF local_only THEN {FALSE} ELSE BOOLEAN)
    /\ test_onion = "none"
    /\ tab_open = TRUE
    /\ log = <<>>
    /\ hist = NoHist
    /\ edits = 0

----------------------------------------------------------------------------
(* The user edits the form.  A widget can be edited while it is shown.  The *)
(* edits modelled are those made while no connection attempt is running.   *)

BridgesShown(f) == f.connection_type = "bundled"
TorSettingsShown(f) == f.connection_type \in {"control_port", "socket_file"}

Edit(f) ==
    /\ tab_open
    /\ ~tor_con.running
    /\ edits < MaxEdits
    /\ f # fields
    /\ fields' = f
    /\ edits' = edits + 1
    /\ log' = <<>>
    /\ hist' = NoHist
    /\ UNCHANGED <<persisted, old_settings, error_label, tor_con_type, buttons_visible,
                   tor_con, onion_authenticated, test_onion, local_only, bundled_radio_enabled, tab_open>>

SelectConnectionType ==
    \E t \in ConnectionTypes :
        /\ t = "bundled" => BundledRadioEnabled
        /\ Edit([fields EXCEPT !.connection_type = t])

EditControlPortAddress ==
    \E v \in AddressTexts :
        /\ fields.connection_type = "control_port"
        /\ Edit([fields EXCEPT !.control_port_address = v])

EditControlPortPort ==
    \E v \in PortTexts :
        /\ fields.connection_type = "control_port"
        /\ Edit([fields EXCEPT !.control_port_port = v])

EditSocketFilePath ==
    \E v \in PathTexts :
        /\ fields.connection_type = "socket_file"
        /\ Edit([fields EXCEPT !.socket_file_path = v])

EditSocksAddress ==
    \E v \in AddressTexts :
        /\ TorSettingsShown(fields)
        /\ Edit([fields EXCEPT !.socks_address = v])

EditSocksPort ==
    \E v \in PortTexts :
        /\ TorSettingsShown(fields)
        /\ Edit([fields EXCEPT !.socks_port = v])

ToggleNoAuth ==
    /\ TorSettingsShown(fields)
    /\ Edit([fields EXCEPT !.no_auth = ~fields.no_auth])

EditPassword ==
    \E v \in PasswordTexts :
        /\ TorSettingsShown(fields)
        /\ ~fields.no_auth
        /\ Edit([fields EXCEPT !.auth_password = v])

ToggleBridgeUse ==
    /\ BridgesShown(fields)
    /\ Edit(SetBridgeUseCheckbox(fields, ~fields.bridge_use_checkbox))

SelectBridgeRadio ==
    \E r \in {"builtin", "moat", "custom"} :
        /\ BridgesShown(fields)
        /\ fields.bridge_use_checkbox
        /\ Edit(SetBridgeRadioChecked(fields, r, TRUE))

SelectBuiltinDropdown ==
    \E k \in BuiltinKinds :
        /\ BridgesShown(fields)
        /\ fields.bridge_use_checkbox
        /\ fields.bridge_radio = "builtin"
        /\ Edit([fields EXCEPT !.bridge_builtin_dropdown = k])

\* bridge_moat_got_bridges(bridges)
BridgeMoatGotBridges ==
    \E bridges \in MoatTexts :
        /\ BridgesShown(fields)
        /\ fields.bridge_use_checkbox
        /\ fields.bridge_radio = "moat"
        /\ Edit([fields EXCEPT !.bridge_moat_textbox = bridges])

EditCustomBridges ==
    \E text \in CustomTexts :
        /\ BridgesShown(fields)
        /\ fields.bridge_use_checkbox
        /\ fields.bridge_radio = "custom"
        /\ Edit([fields EXCEPT !.bridge_custom_textbox = text])

----------------------------------------------------------------------------
(* The buttons and the callbacks of the connection widget *)

Remember(kind, r) ==
    hist' = [kind |-> kind, persisted |-> <<persisted>>,
             authenticated |-> onion_authenticated, fields |-> <<fields>>,
             result |-> Built(r)]

\* test_tor_clicked()
TestTorClicked ==
    /\ tab_open
    /\ buttons_visible
    /\ LET r == SettingsFromFields(fields, persisted)
           steps == TestTorClickedSteps(r)
       IN  /\ Becomes(Run(Program, steps, [settings |-> r.settings, msg |-> r.error]))
           /\ log' = steps
           /\ Remember("test", r)
    /\ UNCHANGED <<old_settings, fields, local_only, bundled_radio_enabled, edits>>

\* save_clicked()
SaveClicked ==
    /\ tab_open
    /\ buttons_visible
    /\ LET r == SettingsFromFields(fields, persisted)
           steps == SaveClickedSteps(r, local_only, onion_authenticated, old_settings)
       IN  /\ Becomes(Run(Program, steps, [settings |-> r.settings, msg |-> r.error]))
           /\ log' = steps
           /\ Remember("save", r)
    /\ UNCHANGED <<old_settings, fields, local_only, bundled_radio_enabled, edits>>

\* The connection widget reports success: tor_con_success().  For a save the Onion
\* connected is the app's own, and authenticated says what it answers afterwards.
\* was_canceled is what self.tor_con.wasCanceled() answers; the log notes it.
TorConSuccess ==
    \E authenticated \in BOOLEAN, was_canceled \in BOOLEAN :
        /\ tor_con.running
        /\ LET auth == IF tor_con.testing_settings THEN onion_authenticated
                       ELSE authenticated
               P == [Program EXCEPT !.tor_con.running = FALSE,
                                    !.onion_authenticated = auth]
               steps == TorConSuccessSteps(tor_con_type, auth, was_canceled)
           IN  /\ Becomes(Run(P, steps, [settings |-> <<>>, msg |-> ""]))
               /\ log' = log \o <<"success">> \o
                         (IF was_canceled THEN <<"canceled">> ELSE <<>>) \o steps
        /\ UNCHANGED <<old_settings, fields, local_only, bundled_radio_enabled, hist, edits>>

\* The connection widget reports failure or cancellation: tor_con_fail(msg).
TorConFail ==
    \E msg \in FailMessages :
        /\ tor_con.running
        /\ LET P == [Program EXCEPT !.tor_con.running = FALSE]
               steps == TorConFailSteps(tor_con_type)
           IN  /\ Becomes(Run(P, steps, [settings |-> <<>>, msg |-> msg]))
               /\ log' = log \o <<"fail">> \o steps
        /\ UNCHANGED <<old_settings, fields, local_only, bundled_radio_enabled, hist, edits>>

\* After close_this_tab the tab is gone; the settings tab opened next is a new
\* TorSettingsTab: __init__ and reload_settings run again.
OpenTab ==
    /\ ~tab_open
    /\ old_settings' = ReloadOldSettings(persisted)
    /\ fields' = ReloadSettings(old_settings')
    /\ error_label' = ""
    /\ tor_con_type' = "None"
    /\ buttons_visible' = TRUE
    /\ tor_con' = FreshTorCon
    /\ test_onion' = "none"
    /\ tab_open' = TRUE
    /\ log' = <<>>
    /\ hist' = NoHist
    /\ UNCHANGED <<persisted, onion_authenticated, local_only, bundled_radio_enabled, edits>>

Next ==
    \/ SelectConnectionType
    \/ EditControlPortAddress
    \/ EditControlPortPort
    \/ EditSocketFilePath
    \/ EditSocksAddress
    \/ EditSocksPort
    \/ ToggleNoAuth
    \/ EditPassword
    \/ ToggleBridgeUse
    \/ SelectBridgeRadio
    \/ SelectBuiltinDropdown
    \/ BridgeMoatGotBridges
    \/ EditCustomBridges
    \/ TestTorClicked
    \/ SaveClicked
    \/ TorConSuccess
    \/ TorConFail
    \/ OpenTab

Spec == Init /\ [][Next]_vars

----------------------------------------------------------------------------
(* The tab opened and its fields left untouched, on either kind of platform; *)
(* the buttons, the callbacks, and the tab opened again after a close.       *)

InitOpen ==
    /\ bundled_radio_enabled \in BOOLEAN
    /\ persisted \in InitConfigs
    /\ old_settings = ReloadOldSettings(persisted)
    /\ fields = ReloadSettings(old_settings)
    /\ error_label = ""
    /\ tor_con_type = "None"
    /\ buttons_visible = TRUE
    /\ tor_con = FreshTorCon
    /\ local_only \in BOOLEAN
    /\ onion_authenticated \in (IF local_only THEN {FALSE} ELSE BOOLEAN)
    /\ test_onion = "none"
    /\ tab_open = TRUE
    /\ log = <<>>
    /\ hist = NoHist
    /\ edits = 0

NextOpen ==
    \/ TestTorClicked
    \/ SaveClicked
    \/ TorConSuccess
    \/ TorConFail
    \/ OpenTab

SpecOpen == InitOpen /\ [][NextOpen]_vars

----------------------------------------------------------------------------
(* The tab with the custom radio selected and a typed text in the custom     *)
(* bridges textbox, over a stored configuration without bridges or with      *)
(* custom bridges; from there the buttons and the callbacks.                 *)

CustomStartConfigs ==
    {StoredConfig("bundled", "9051", b) :
        b \in {c \in BridgeChoices : c.no_bridges \/ c.custom # EmptyText}}

\* The user checks 'use a bridge', selects the custom radio and types text.
TypedCustomFields(old, text) ==
    [SetBridgeRadioChecked(SetBridgeUseCheckbox(ReloadSettings(old), TRUE), "custom", TRUE)
        EXCEPT !.bridge_custom_textbox = text]

InitCustom ==
    /\ bundled_radio_enabled = TRUE
    /\ persisted \in CustomStartConfigs
    /\ old_settings = ReloadOldSettings(persisted)
    /\ fields \in {TypedCustomFields(old_settings, text) : text \in TypedTexts}
    /\ error_label = ""
    /\ tor_con_type = "None"
    /\ buttons_visible = TRUE
    /\ tor_con = FreshTorCon
    /\ local_only = FALSE
    /\ onion_authenticated = TRUE
    /\ test_onion = "none"
    /\ tab_open = TRUE
    /\ log = <<>>
    /\ hist = NoHist
    /\ edits = 0

NextCustom ==
    \/ TestTorClicked
    \/ SaveClicked
    \/ TorConSuccess
    \/ TorConFail

SpecCustom == InitCustom /\ [][NextCustom]_vars

----------------------------------------------------------------------------
(* Vocabulary of the properties *)

\* The last click ran settings_from_fields and it returned a Settings object.
Built_ok == hist.kind # "none" /\ hist.result.ok

\* The Settings object the last click built.
Candidate == hist.result.settings[1]

\* The store, the fields and the session as they were at the last click.
PersistedAtClick == hist.persisted[1]
FieldsAtClick == hist.fields[1]

Has(step) == \E i \in 1..Len(log) : log[i] = step
Count(step) == Cardinality({i \in 1..Len(log) : log[i] = step})
Precedes(a, b) ==
    \A j \in 1..Len(log) : log[j] = b => \E i \in 1..(j - 1) : log[i] = a

SaveFailed == hist.kind = "save" /\ Has("fail")
SaveInFlight == tor_con.running /\ tor_con_type = "save"

----------------------------------------------------------------------------
(* C1 *)

\* C1 as stated: when the attempt of a save ends in tor_con_fail, the store was not
\* written during the action, so it holds what it held before save was clicked.
C1_FailedSaveLeavesStore == SaveFailed => persisted = PersistedAtClick

\* C1 amended: when the attempt of a save ends in tor_con_fail, the store was written
\* exactly once during the action, by save_clicked before the attempt was started and
\* not by tor_con_fail, and it holds the candidate built from the fields.
C1_FailedSaveKeepsCandidate ==
    SaveFailed =>
        /\ persisted = Candidate
        /\ Count("save") = 1
        /\ Precedes("save", "start_save")
        /\ Precedes("save", "fail")

C1_Witness == SaveFailed /\ persisted # PersistedAtClick /\ tor_con_type = "None"

----------------------------------------------------------------------------
(* C2 *)

\* C2 as stated: during a save that reconnects the Onion is not cleaned up before the
\* outcome of the attempt is known, and after a failed or cancelled attempt the
\* previous session is as it was.
C2_NoCleanupBeforeOutcome ==
    /\ SaveInFlight => ~Has("cleanup")
    /\ SaveFailed => onion_authenticated = hist.authenticated

\* C2 amended: during a save that reconnects the Onion is cleaned up once, by
\* save_clicked before the attempt is started and so before its outcome is known;
\* while the attempt runs and after it failed or was cancelled the previous session
\* is gone (not authenticated).
C2_CleanupBeforeAttempt ==
    (hist.kind = "save" /\ Has("start_save")) =>
        /\ Count("cleanup") = 1
        /\ Precedes("cleanup", "start_save")
        /\ (SaveInFlight \/ SaveFailed) => ~onion_authenticated

C2_Witness == SaveFailed /\ hist.authenticated /\ ~onion_authenticated

----------------------------------------------------------------------------
(* C3 *)

\* C3: a test with a valid configuration creates a fresh test Onion and starts the
\* attempt with testing_settings set; when the attempt succeeds the test Onion is
\* cleaned up; and from the click to the return to idle the store is not written.
C3_TestIsIsolated ==
    (hist.kind = "test" /\ Built_ok) =>
        /\ Has("new_test_onion") /\ Has("start_test")
        /\ Precedes("new_test_onion", "start_test")
        /\ tor_con.testing_settings
        /\ tor_con.settings = <<Candidate>>
        /\ tor_con.running => test_onion = "live"
        /\ Has("success") => (Has("test_cleanup") /\ test_onion = "cleaned")
        /\ ~Has("save")
        /\ persisted = PersistedAtClick

C3_Witness ==
    /\ hist.kind = "test" /\ Built_ok
    /\ Has("success")
    /\ tor_con_type = "None" /\ buttons_visible
    /\ test_onion = "cleaned"

----------------------------------------------------------------------------
(* C4 *)

\* The fields the claim calls invalid: moat selected with a blank textbox, or custom
\* selected with no line that a pattern accepts.
InvalidFields(f) ==
    /\ f.bridge_use_checkbox
    /\ \/ f.bridge_radio = "moat" /\ IsBlank(f.bridge_moat_textbox)
       \/ /\ f.bridge_radio = "custom"
          /\ \A i \in 1..Len(f.bridge_custom_textbox) :
                ~BridgeAccepted(f.bridge_custom_textbox[i])

\* C4: a click (test or save) on invalid fields starts no connection attempt, cleans
\* up no Onion, writes nothing to the store, and leaves a message on the error label.
C4_InvalidFieldsNoAction ==
    (hist.kind # "none" /\ InvalidFields(FieldsAtClick)) =>
        /\ ~hist.result.ok
        /\ ~Has("start_test") /\ ~Has("start_save") /\ ~Has("new_test_onion")
        /\ ~Has("cleanup") /\ ~Has("save") /\ ~Has("close")
        /\ ~tor_con.running /\ tor_con_type = "None"
        /\ onion_authenticated = hist.authenticated
        /\ persisted = PersistedAtClick
        /\ error_label \in {"gui_settings_moat_bridges_invalid",
                            "gui_settings_tor_bridges_invalid"}

C4_Witness ==
    /\ hist.kind = "save"
    /\ InvalidFields(FieldsAtClick)
    /\ FieldsAtClick.bridge_radio = "moat"
    /\ error_label = "gui_settings_moat_bridges_invalid"

----------------------------------------------------------------------------
(* C5 *)

\* The keys the claim lists: those of CompareKeys, and the snowflake and moat flags
\* of the bridge selection.
ClaimedKeys ==
    {"connection_type", "control_port_address", "control_port_port", "socks_address",
     "socks_port", "socket_file_path", "auth_type", "auth_password", "no_bridges",
     "tor_bridges_use_obfs4", "tor_bridges_use_meek_lite_azure",
     "tor_bridges_use_snowflake", "tor_bridges_use_moat",
     "tor_bridges_use_custom_bridges"}

Differs(keys) == \E k \in keys : Candidate[k] # old_settings[k]

\* C5 as stated: on a save while the session is authenticated, a reconnect is started
\* exactly when the candidate differs from the loaded configuration in one of the
\* listed keys, a change of the builtin kind or between moat and a builtin kind
\* included.
C5_AnyListedDifferenceReconnects ==
    (hist.kind = "save" /\ Built_ok /\ hist.authenticated) =>
        (Has("start_save") <=> Differs(ClaimedKeys))

----------------------------------------------------------------------------
(* C6 *)

\* C6 as stated: a save while the session is not authenticated cleans up the Onion
\* and starts a connection attempt, whether or not a field changed.
C6_UnauthenticatedSaveReconnects ==
    (hist.kind = "save" /\ Built_ok /\ ~hist.authenticated) =>
        (Has("cleanup") /\ Has("start_save"))

\* C6 amended: a save of a valid configuration while the app is not local-only and
\* the session is not authenticated cleans up the Onion and starts a connection
\* attempt, whether or not a field changed; in local-only mode it starts none and
\* closes the tab.
C6_UnauthenticatedSaveReconnectsUnlessLocal ==
    (hist.kind = "save" /\ Built_ok /\ ~hist.authenticated) =>
        IF local_only
        THEN ~Has("cleanup") /\ ~Has("start_save") /\ Has("close")
        ELSE Has("cleanup") /\ Has("start_save") /\ tor_con.settings = <<Candidate>>

C6_Witness ==
    /\ hist.kind = "save" /\ Built_ok /\ ~hist.authenticated /\ ~local_only
    /\ Candidate = old_settings
    /\ SaveInFlight

----------------------------------------------------------------------------
(* C7 *)

\* C7: a save while authenticated of a candidate equal to the loaded configuration on
\* every key starts no attempt and cleans up no Onion: the settings are saved and
\* close_this_tab is emitted at once, the connection widget never shown.
C7_UnchangedSaveClosesDirectly ==
    (hist.kind = "save" /\ Built_ok /\ hist.authenticated /\ Candidate = old_settings) =>
        /\ log = <<"clear_error", "save", "close">>
        /\ ~tor_con.running /\ ~tor_con.shown /\ tor_con_type = "None"
        /\ onion_authenticated
        /\ persisted = Candidate
        /\ ~tab_open

C7_Witness ==
    /\ hist.kind = "save" /\ Built_ok /\ hist.authenticated
    /\ Candidate = old_settings
    /\ ~tab_open

----------------------------------------------------------------------------
(* C8 *)

OnlyPasswordDiffers ==
    /\ Candidate["auth_password"] # old_settings["auth_password"]
    /\ ~Differs(SettingsKeys \ {"auth_password"})

\* C8: every connection attempt a save starts is preceded, in the same run of
\* save_clicked, by the cleanup of the Onion; and a save while authenticated whose
\* candidate differs from the loaded configuration in auth_password only does
\* start one.
C8_CleanupPrecedesStart ==
    hist.kind = "save" =>
        /\ Precedes("cleanup", "start_save")
        /\ SaveInFlight => Has("cleanup")
        /\ (Built_ok /\ hist.authenticated /\ OnlyPasswordDiffers) => Has("start_save")

C8_Witness ==
    /\ hist.kind = "save" /\ Built_ok /\ hist.authenticated
    /\ OnlyPasswordDiffers
    /\ SaveInFlight /\ Has("cleanup")

----------------------------------------------------------------------------
(* C9 *)

\* C9 as stated: a configuration built while the 'use bridges' checkbox is unchecked
\* has bridges disabled and no bridge field set: no builtin flag, no moat flag, no
\* custom bridges.
C9_UncheckedClearsBridgeFields ==
    (Built_ok /\ ~FieldsAtClick.bridge_use_checkbox) =>
        /\ Candidate["no_bridges"]
        /\ ~Candidate["tor_bridges_use_obfs4"]
        /\ ~Candidate["tor_bridges_use_meek_lite_azure"]
        /\ ~Candidate["tor_bridges_use_snowflake"]
        /\ ~Candidate["tor_bridges_use_moat"]
        /\ Candidate["tor_bridges_use_custom_bridges"] = EmptyText

----------------------------------------------------------------------------
(* C10 *)

\* C10 as stated: settings_from_fields depends on the field values alone: the build
\* a click ran and a build from the same field values over any other stored
\* configuration give equal results.
C10_BuildDependsOnFieldsOnly ==
    hist.kind # "none" =>
        \A store \in InitConfigs :
            Built(SettingsFromFields(FieldsAtClick, store)) = hist.result

----------------------------------------------------------------------------
(* C11 *)

\* C11 as stated: once tor_con_success has run for a save, old_settings equals the
\* configuration the save persisted.
C11_BaselineIsPersistedAfterSave ==
    (hist.kind = "save" /\ Has("success")) => old_settings = persisted

\* C11 amended: old_settings is assigned only when a tab is constructed, and then
\* it is what the store holds; no click and no callback changes it.  Once
\* tor_con_success has run for a save the store holds the candidate; the baseline
\* equals it only in the tab opened next.
C11_BaselineLoadedAtOpen ==
    /\ [][IF ~tab_open /\ tab_open'
          THEN old_settings' = persisted' /\ persisted' = persisted
          ELSE old_settings' = old_settings]_vars
    /\ []((hist.kind = "save" /\ Has("success")) => persisted = Candidate)

C11_Witness ==
    /\ hist.kind = "save" /\ Has("success")
    /\ tab_open
    /\ persisted = Candidate
    /\ old_settings # persisted

----------------------------------------------------------------------------
(* C12 *)

\* C12: while a connection attempt started by test or save is in flight both
\* buttons are hidden, and no step starts a second one: the attempt the widget
\* runs stays the one that was started until tor_con_success or tor_con_fail
\* ends it.
C12_OneAttemptInFlight ==
    /\ [](tor_con.running => (~buttons_visible /\ Count("start_test") + Count("start_save") = 1))
    /\ [][tor_con.running =>
            \/ tor_con' = tor_con
            \/ /\ ~tor_con'.running
               /\ buttons_visible'
               /\ \E i \in 1..Len(log') : log'[i] \in {"success", "fail"}]_vars

C12_Witness ==
    /\ tor_con.running /\ ~buttons_visible
    /\ hist.kind = "save" /\ Has("start_save")

----------------------------------------------------------------------------
(* C19 *)

\* C19: in every reachable state, when no connection attempt is in flight
\* tor_con_type is None and both buttons are shown; while one is in flight
\* tor_con_type is "test" or "save", the action that started it, and both buttons
\* are hidden; and once tor_con_success or tor_con_fail has run the tab is idle.
C19_IdleExactlyWhenNoAttempt ==
    /\ ~tor_con.running <=> (tor_con_type = "None" /\ buttons_visible)
    /\ tor_con.running =>
           /\ tor_con_type \in {"test", "save"}
           /\ tor_con_type = hist.kind
           /\ tor_con.testing_settings <=> tor_con_type = "test"
           /\ ~buttons_visible
    /\ (Has("success") \/ Has("fail")) =>
           (~tor_con.running /\ tor_con_type = "None" /\ buttons_visible)

C19_Witness ==
    /\ hist.kind = "test" /\ Has("start_test") /\ Has("fail")
    /\ ~tor_con.running /\ tor_con_type = "None" /\ buttons_visible

----------------------------------------------------------------------------
(* C13 *)

\* The bridge selections a configuration holds as active.
BuiltinFlagsSet(s) ==
    {k \in {"tor_bridges_use_obfs4", "tor_bridges_use_meek_lite_azure",
            "tor_bridges_use_snowflake"} : s[k]}

ActiveSelections(s) ==
    (IF BuiltinFlagsSet(s) # {} THEN {"builtin"} ELSE {})
    \cup (IF s["tor_bridges_use_moat"] THEN {"moat"} ELSE {})
    \cup (IF s["tor_bridges_use_custom_bridges"] # EmptyText THEN {"custom"} ELSE {})

\* C13: the stored configuration, whatever saves have written it, holds at most one
\* builtin flag, and at most one of: a builtin flag, the moat flag, a non-empty
\* custom bridge text.  (Every stored configuration the tab starts from, the one
\* with no bridge selected included, holds at most one selection.)
C13_AtMostOneBridgeSelection ==
    /\ Cardinality(BuiltinFlagsSet(persisted)) <= 1
    /\ Cardinality(ActiveSelections(persisted)) <= 1
    /\ Built_ok =>
           /\ Cardinality(BuiltinFlagsSet(Candidate)) <= 1
           /\ Cardinality(ActiveSelections(Candidate)) <= 1

\* A save over a configuration with no bridge selected has stored a selection
\* that the fields made.
C13_Witness ==
    /\ hist.kind = "save" /\ Has("save")
    /\ ActiveSelections(PersistedAtClick) = {}
    /\ ActiveSelections(persisted) = {"builtin"}
    /\ persisted["tor_bridges_use_snowflake"]

----------------------------------------------------------------------------
(* C14 and C15, over SpecCustom *)

CustomSelected(f) == f.bridge_use_checkbox /\ f.bridge_radio = "custom"

\* Some line of the text is accepted by a pattern.
SomeLineAccepted(text) == \E i \in 1..Len(text) : BridgeAccepted(text[i])

\* C14: a click with the custom radio selected and a text with at least one accepted
\* line builds a configuration whose custom bridges are the accepted lines of the
\* text, in the order of the text, each followed by a newline; lines that no
\* pattern accepts and empty lines are dropped; a save stores just that.
C14_AcceptedLinesKept ==
    (hist.kind # "none" /\ CustomSelected(FieldsAtClick)
        /\ SomeLineAccepted(FieldsAtClick.bridge_custom_textbox)) =>
        /\ hist.result.ok
        /\ Candidate["tor_bridges_use_custom_bridges"] =
               SelectSeq(FieldsAtClick.bridge_custom_textbox, BridgeAccepted) \o <<"">>
        /\ hist.kind = "save" => persisted = Candidate

C14_Witness ==
    /\ hist.kind = "save" /\ CustomSelected(FieldsAtClick)
    /\ FieldsAtClick.bridge_custom_textbox = <<SnowflakeLine, GarbageLine, Obfs4Line>>
    /\ persisted["tor_bridges_use_custom_bridges"] = <<SnowflakeLine, Obfs4Line, "">>

\* C15: a click with the custom radio selected and a text that is blank or has no
\* accepted line builds nothing: settings_from_fields returns False with the
\* invalid-bridges message on the error label, the handler does nothing more, and
\* the store is as it was.
C15_NoAcceptedLineFails ==
    (hist.kind # "none" /\ CustomSelected(FieldsAtClick)
        /\ ~SomeLineAccepted(FieldsAtClick.bridge_custom_textbox)) =>
        /\ ~hist.result.ok
        /\ error_label = "gui_settings_tor_bridges_invalid"
        /\ log = <<"clear_error", "set_error">>
        /\ persisted = PersistedAtClick
        /\ tab_open /\ ~tor_con.running

C15_Witness ==
    /\ hist.kind = "save" /\ CustomSelected(FieldsAtClick)
    /\ FieldsAtClick.bridge_custom_textbox = <<GarbageLine, BlankLine, "">>
    /\ error_label = "gui_settings_tor_bridges_invalid"
    /\ persisted["tor_bridges_use_custom_bridges"] = EmptyText

----------------------------------------------------------------------------
(* C16 *)

MoatSelectedBlank(f) ==
    f.bridge_use_checkbox /\ f.bridge_radio = "moat" /\ IsBlank(f.bridge_moat_textbox)

\* C16: a click (test or save) while the moat radio is selected and the moat
\* textbox is empty or holds white space only builds nothing and puts the moat
\* bridges message on the error label; that step changes neither the store nor
\* old_settings, and the handler does nothing more.
C16_BlankMoatFails ==
    /\ []((hist.kind # "none" /\ MoatSelectedBlank(FieldsAtClick)) =>
            /\ ~hist.result.ok
            /\ error_label = "gui_settings_moat_bridges_invalid"
            /\ log = <<"clear_error", "set_error">>
            /\ persisted = PersistedAtClick)
    /\ [][(hist' # hist /\ hist'.kind # "none" /\ MoatSelectedBlank(fields)) =>
            (persisted' = persisted /\ old_settings' = old_settings)]_vars

C16_Witness ==
    /\ hist.kind = "save" /\ MoatSelectedBlank(FieldsAtClick)
    /\ FieldsAtClick.bridge_moat_textbox = <<BlankLine>>
    /\ error_label = "gui_settings_moat_bridges_invalid"
    /\ persisted = old_settings

----------------------------------------------------------------------------
(* C17, over SpecOpen *)

\* The click was made on the fields as reload_settings filled them, the store
\* holding what was loaded.
Untouched ==
    /\ hist.kind # "none"
    /\ FieldsAtClick = ReloadSettings(old_settings)
    /\ PersistedAtClick = old_settings

\* C17 as stated: a build from the untouched fields gives a configuration equal to
\* the stored one on every compared key, and a save while authenticated right
\* after opening starts no connection attempt.
C17_RoundTrip ==
    Untouched =>
        /\ hist.result.ok
        /\ ~Changed(Candidate, PersistedAtClick, CompareKeys)
        /\ (hist.kind = "save" /\ hist.authenticated) => ~Has("start_save")

\* The stored ports are texts, as a save of this tab stores them.
PortsAreText(s) ==
    /\ Str(s["control_port_port"]) = s["control_port_port"]
    /\ Str(s["socks_port"]) = s["socks_port"]

\* reload_settings does not fall back from bundled to automatic.
NoFallback(s) == bundled_radio_enabled \/ s["connection_type"] # "bundled"

\* C17 amended: when the stored configuration is one that a save of this tab wrote
\* (its ports are texts) and reload_settings does not fall back to automatic, a
\* build from the untouched fields gives a configuration equal to the stored one
\* on every compared key, and a save while authenticated starts no connection
\* attempt: it saves and closes the tab.  Where the stored type is bundled and the
\* bundled radio is disabled, the build gives "automatic".
C17_RoundTripOfSavedConfig ==
    Untouched =>
        /\ hist.result.ok
        /\ (PortsAreText(old_settings) /\ NoFallback(old_settings)) =>
               /\ ~Changed(Candidate, PersistedAtClick, CompareKeys)
               /\ (hist.kind = "save" /\ hist.authenticated) =>
                      log = <<"clear_error", "save", "close">>
        /\ ~NoFallback(old_settings) => Candidate["connection_type"] = "automatic"

C17_Witness ==
    /\ Untouched /\ hist.kind = "save" /\ hist.authenticated
    /\ PortsAreText(old_settings) /\ NoFallback(old_settings)
    /\ ~old_settings["no_bridges"] /\ old_settings["tor_bridges_use_snowflake"]
    /\ persisted = Candidate
    /\ ~tab_open

----------------------------------------------------------------------------
(* C18 *)

\* C18: close_this_tab is emitted only by a save, once, after the settings were
\* stored, and either by save_clicked itself when no reboot of the Onion is needed
\* or the app is local-only, or by tor_con_success when the Onion is authenticated
\* and the attempt was not cancelled; after tor_con_fail the tab is open and the
\* error label holds the message of the failure.
C18_CloseOnlyWhenSavedAndConnected ==
    /\ ~tab_open <=> Has("close")
    /\ Has("close") =>
           /\ hist.kind = "save" /\ Built_ok
           /\ Count("close") = 1
           /\ Precedes("save", "close")
           /\ persisted = Candidate
           /\ IF Has("start_save")
              THEN /\ ~local_only
                   /\ RebootOnion(hist.authenticated, Candidate, old_settings)
                   /\ Has("success") /\ ~Has("fail") /\ ~Has("canceled")
                   /\ onion_authenticated
              ELSE local_only \/ ~RebootOnion(hist.authenticated, Candidate, old_settings)
    /\ Has("fail") =>
           /\ tab_open /\ ~Has("close")
           /\ error_label \in FailMessages
           /\ Precedes("fail", "set_error")

\* A save that reconnected and closed the tab from tor_con_success.
C18_Witness ==
    /\ hist.kind = "save" /\ Has("start_save") /\ Has("success")
    /\ Has("close") /\ ~tab_open
    /\ onion_authenticated

----------------------------------------------------------------------------
(* C20 *)

\* C20: a test, from the click to the end of its callback and whatever the outcome,
\* changes neither the store, nor old_settings, nor the app's own Onion (it is not
\* cleaned up and answers is_authenticated() as before), and never closes the tab;
\* the test Onion is live exactly while the attempt of a test runs: tor_con_fail
\* cleans it up as tor_con_success does.
C20_TestLeavesSessionAndStore ==
    /\ [](hist.kind = "test" =>
            /\ persisted = PersistedAtClick
            /\ onion_authenticated = hist.authenticated
            /\ ~Has("save") /\ ~Has("cleanup") /\ ~Has("close") /\ ~Has("start_save")
            /\ (Has("success") \/ Has("fail")) =>
                   (Count("test_cleanup") = 1 /\ test_onion = "cleaned"))
    /\ [](test_onion = "live" <=> (tor_con.running /\ tor_con_type = "test"))
    /\ [][hist'.kind = "test" =>
            /\ old_settings' = old_settings
            /\ persisted' = persisted
            /\ onion_authenticated' = onion_authenticated]_vars

C20_Witness ==
    /\ hist.kind = "test" /\ Has("start_test") /\ Has("fail")
    /\ test_onion = "cleaned"
    /\ hist.authenticated /\ onion_authenticated
    /\ persisted = PersistedAtClick

====
